---- MODULE Spec2Model ----
(***************************************************************************)
(* paper2note (src/paper2note/paper2note.py): extract the metadata of a    *)
(* PDF, rename the PDF after a pattern and write a note from a template.   *)
(*                                                                         *)
(* Text is a sequence of tokens.  A token is an indivisible piece of text: *)
(* a literal ("a", "x"), the path separator "/", a filename suffix         *)
(* (".pdf"), or a replacement field of str.format ("{title}").  A path is  *)
(* the text of its string form, so "/d/a.pdf" is                           *)
(* << "/", "d", "/", "a", ".pdf" >>.                                       *)
(***************************************************************************)
EXTENDS Integers, Sequences, FiniteSets, TLC

VARIABLES
    files,                  \* filesystem: path of each regular file -> its content
    dirs,                   \* filesystem: the paths that are directories
    config,                 \* process-wide pdf2doi.config / pdf2bib.config
    paper,                  \* what pdf2bib extracts from the PDF (fixed per behaviour)
    args,                   \* the arguments of the current call of paper2note
    pc,                     \* position in paper2note
    run,                    \* number of calls of paper2note so far
    err,                    \* the exception the current call ended with, or "none"
    pdf,                    \* locals of paper2note, named as in the source
    pdf_rename_pattern,
    note_target_folder,
    note_template_path,
    note_filename_pattern,
    data,
    new_pdf_path,
    note_path,
    note_content,
    extraction_result,      \* input of clean_metadata (specification SpecClean)
    hist                    \* history: snapshots and flags the properties read

vars == << files, dirs, config, paper, args, pc, run, err, pdf, pdf_rename_pattern,
           note_target_folder, note_template_path, note_filename_pattern, data,
           new_pdf_path, note_path, note_content, extraction_result, hist >>

-----------------------------------------------------------------------------
(* Bounds *)

MaxAuthors == 2
MaxVaried == 2
MaxRuns == 2

-----------------------------------------------------------------------------
(* Python values: None, str and int, each with the text str() gives it *)

None == [t |-> "none", v |-> << >>]
S(text) == [t |-> "str", v |-> text]
I(digits) == [t |-> "int", v |-> digits]

\* bool(value): None, "" and 0 are falsy
Truthy(val) ==
    /\ val.t # "none"
    /\ val.v # << >>
    /\ ~(val.t = "int" /\ val.v = << "0" >>)

\* a or b
Or(a, b) == IF Truthy(a) THEN a ELSE b

\* str(value), as str.format renders a value with an empty format spec
PyStr(val) == IF val.t = "none" THEN << "None" >> ELSE val.v

\* dict.get(key) and dict.get(key, default)
Get(d, key) == IF key \in DOMAIN d THEN d[key] ELSE None
GetDefault(d, key, default) == IF key \in DOMAIN d THEN d[key] ELSE default

-----------------------------------------------------------------------------
(* str.format with the mapping's entries as keyword arguments *)

\* the replacement fields and the key each one names
FieldKey ==
    "{title}" :> "title" @@ "{year}" :> "year" @@ "{authors}" :> "authors" @@
    "{author_last}" :> "author_last" @@ "{nonexistent_field}" :> "nonexistent_field"

IsField(tok) == tok \in DOMAIN FieldKey

RECURSIVE FormatFrom(_, _, _)
FormatFrom(text, d, i) ==
    IF i > Len(text) THEN [ok |-> TRUE, s |-> << >>, key |-> ""]
    ELSE IF IsField(text[i]) /\ FieldKey[text[i]] \notin DOMAIN d
         THEN [ok |-> FALSE, s |-> << >>, key |-> FieldKey[text[i]]]
    ELSE LET rest == FormatFrom(text, d, i + 1)
             here == IF IsField(text[i]) THEN PyStr(d[FieldKey[text[i]]])
                     ELSE << text[i] >>
         IN  IF rest.ok THEN [rest EXCEPT !.s = here \o rest.s] ELSE rest

\* text.format with d's entries: the text with every field replaced, or KeyError(key) for the
\* first field whose key d lacks.  The replacement text is not parsed again.
Format(text, d) == FormatFrom(text, d, 1)

-----------------------------------------------------------------------------
(* clean_metadata *)

ScalarKeys ==
    {"title", "year", "month", "day", "journal", "ejournal", "doi", "url",
     "volume", "page", "ENTRYTYPE"}

AuthorKey(i) == "author_" \o ToString(i)

\* f"{author['given']} {author['family']}"
AuthorName(author) == author.given \o << " " >> \o author.family

RECURSIVE Join(_, _)
\* sep.join(list)
Join(sep, list) ==
    IF list = << >> THEN << >>
    ELSE IF Len(list) = 1 THEN list[1]
    ELSE list[1] \o sep \o Join(sep, Tail(list))

\* metadata.get("title", "<no title found>"): the default is used only when the
\* key is absent
CleanTitle(metadata) == GetDefault(metadata, "title", S(<< "<no title found>" >>))

AuthorsJoined(authors_list) ==
    IF authors_list # << >> THEN S(Join(<< ", " >>, authors_list))
    ELSE S(<< "<no authors found>" >>)

\* the keys author_1 .. author_N
AuthorEntries(authors_list) ==
    [k \in {AuthorKey(i) : i \in 1..Len(authors_list)} |->
        S(authors_list[CHOOSE i \in 1..Len(authors_list) : AuthorKey(i) = k])]

\* a slip in line 57: the first author instead of the last
AuthorLastIsFirst(authors_list) ==
    IF authors_list # << >> THEN "author_last" :> S(authors_list[1]) ELSE << >>

\* lines 56-57
AuthorLast(authors_list) ==
    IF authors_list # << >>
    THEN "author_last" :> S(authors_list[Len(authors_list)])
    ELSE << >>

\* An extraction result is [metadata, author, validation_data, bibtex]: metadata
\* maps the scalar keys that are present to their values, author is the
\* metadata's "author" entry ([has |-> FALSE] when the key is absent).
clean_metadata(result) ==
    LET metadata == result.metadata
        raw_authors == IF result.author.has THEN result.author.list ELSE << >>
        authors_list == [i \in 1..Len(raw_authors) |-> AuthorName(raw_authors[i])]
        cleaned_metadata ==
            [title    |-> CleanTitle(metadata),
             authors  |-> AuthorsJoined(authors_list),
             year     |-> Or(Get(metadata, "year"), S(<< "????" >>)),
             month    |-> Or(Get(metadata, "month"), S(<< "??" >>)),
             day      |-> Or(Get(metadata, "day"), S(<< "??" >>)),
             journal  |-> Or(Get(metadata, "journal"),
                             Or(Get(metadata, "ejournal"), S(<< "<no journal found>" >>))),
             doi      |-> Or(Get(metadata, "doi"), S(<< "<no doi found>" >>)),
             url      |-> Or(Get(metadata, "url"), S(<< "<no url found>" >>)),
             volume   |-> Or(Get(metadata, "volume"), S(<< "<no volume found>" >>)),
             page     |-> Or(Get(metadata, "page"), S(<< "<no page found>" >>)),
             type     |-> Or(Get(metadata, "ENTRYTYPE"), S(<< "article" >>)),
             abstract |-> Or(Get(result.validation_data, "summary"),
                             S(<< "<no abstract found>" >>)),
             bibtex   |-> Or(result.bibtex, S(<< "<no bibtex found>" >>))]
    IN  AuthorLast(authors_list) @@ AuthorEntries(authors_list) @@ cleaned_metadata

-----------------------------------------------------------------------------
(* pathlib: paths as text *)

Sep == "/"
Suffixes == {".pdf", ".PDF", ".md"}

is_absolute(p) == p # << >> /\ p[1] = Sep

RECURSIVE Collapse(_)
Collapse(p) ==
    IF Len(p) <= 1 THEN p
    ELSE IF p[1] = Sep /\ p[2] = Sep THEN Collapse(Tail(p))
    ELSE << p[1] >> \o Collapse(Tail(p))

\* Path(text): repeated separators collapse and a trailing separator is dropped
PurePath(p) ==
    LET c == Collapse(p)
    IN  IF Len(c) > 1 /\ c[Len(c)] = Sep THEN SubSeq(c, 1, Len(c) - 1) ELSE c

\* a / b: an absolute b replaces a
JoinPath(a, b) == IF is_absolute(b) THEN PurePath(b) ELSE PurePath(a \o << Sep >> \o b)

LastSep(p) ==
    LET at == {i \in 1..Len(p) : p[i] = Sep}
    IN  IF at = {} THEN 0 ELSE CHOOSE i \in at : \A j \in at : j <= i

\* Path.parent, Path.name, Path.suffix, Path.stem
parent(p) == IF LastSep(p) <= 1 THEN SubSeq(p, 1, LastSep(p)) ELSE SubSeq(p, 1, LastSep(p) - 1)
name(p) == SubSeq(p, LastSep(p) + 1, Len(p))
suffix(p) ==
    LET n == name(p)
    IN  IF Len(n) > 1 /\ n[Len(n)] \in Suffixes THEN << n[Len(n)] >> ELSE << >>
stem(p) == SubSeq(name(p), 1, Len(name(p)) - Len(suffix(p)))

\* a directory and its ancestors
Ancestors(p) == {PurePath(SubSeq(p, 1, i)) : i \in {j \in 1..Len(p) : j = Len(p) \/ p[j + 1] = Sep}}

-----------------------------------------------------------------------------
(* The filesystem *)

\* Path.exists()
exists(fs, ds, p) == p \in DOMAIN fs \/ p \in ds

\* Path.rename(target) of a regular file onto a path where nothing exists: the
\* file moves; os.rename raises FileNotFoundError when the target's directory
\* does not exist
\* a slip in line 129: the file is copied and the original stays
RenameCopies(fs, src, dst) == [q \in DOMAIN fs \cup {dst} |-> IF q = dst THEN fs[src] ELSE fs[q]]
rename(fs, src, dst) == [q \in (DOMAIN fs \ {src}) \cup {dst} |-> IF q = dst THEN fs[src] ELSE fs[q]]

\* open(path, "w"): the file is created empty, or truncated
open_w(fs, p) == [q \in DOMAIN fs \cup {p} |-> IF q = p THEN << >> ELSE fs[q]]

\* f.write(text) on the file just opened
write(fs, p, text) == [fs EXCEPT ![p] = text]

\* Path.mkdir(parents=True)
mkdir_parents(ds, p) == ds \cup Ancestors(p)

\* input_validate_path, lines 12-20
Cwd == << "/", "d" >>
input_validate_path(path) == IF ~is_absolute(path) THEN JoinPath(Cwd, path) ELSE PurePath(path)

-----------------------------------------------------------------------------
(* The inputs the model draws from *)

Root == << Sep >>
PdfDir == << "/", "d" >>
SubDir == << "/", "d", "/", "s" >>
SubSubDir == << "/", "d", "/", "s", "/", "s" >>
NoteDir == << "/", "d", "/", "n" >>
PkgDir == << "/", "pkg" >>
TemplateDir == << "/", "pkg", "/", "templates" >>

\* Path(__file__).parent.parent / "templates" / "default_note_template.md"
DefaultTemplatePath == JoinPath(JoinPath(PkgDir, << "templates" >>), << "default_note_template", ".md" >>)
DefaultTemplateText == << "{title}", " ", "{authors}", " ", "{year}" >>

CustomTemplatePath == << "/", "d", "/", "t", ".md" >>
CustomTemplateTexts == {<< "{nonexistent_field}" >>, << "{title}", "{author_last}" >>}

PdfStems == {<< "a" >>, << "{title}" >>}
PdfSuffixes == {".pdf", ".PDF"}
PdfPaths == {JoinPath(PdfDir, st \o << sf >>) : st \in PdfStems, sf \in PdfSuffixes}

Jane == [given |-> << "Jane" >>, family |-> << "Doe" >>]
John == [given |-> << "John" >>, family |-> << "Roe" >>]

Result(title, authors) ==
    [metadata |-> ("title" :> S(title) @@ "year" :> I(<< "2023" >>)),
     author |-> authors,
     validation_data |-> << >>,
     bibtex |-> None]

\* what pdf2bib may extract from the PDF
Papers ==
    {Result(<< "x" >>, [has |-> TRUE, list |-> << Jane >>]),
     Result(<< "x" >>, [has |-> FALSE, list |-> << >>]),
     Result(<< "s", Sep, "x" >>, [has |-> TRUE, list |-> << Jane >>]),
     Result(<< "{year}" >>, [has |-> TRUE, list |-> << Jane >>])}

\* files that may be there before the first call, each with this content
OldText == << "old" >>
PreExisting == {<< "/", "d", "/", "x", ".pdf" >>, << "/", "d", "/", "x", ".md" >>}

RenamePatterns == {None, S(<< "{title}" >>), S(<< "a" >>), S(<< "{nonexistent_field}" >>)}
NoteFolders == {None, S(<< "n" >>)}
NotePatterns == {None, S(<< "{year}" >>), S(<< "{nonexistent_field}" >>)}
TemplatePaths == {None, S(<< "t", ".md" >>), S(<< "/", "d", "/", "u", ".md" >>)}
\* pdf2bib_config / pdf2doi_config: None and {} behave alike (lines 109-110)
Configs == {<< >>, "verbose" :> "False"}
MissingPdf == << "/", "d", "/", "q", ".pdf" >>

NoHist ==
    [files0 |-> << >>, dirs0 |-> {}, config0 |-> << >>,
     prevPc |-> "none", prevErr |-> "none",
     renamed |-> FALSE, extracted |-> FALSE, steps |-> << >>]

NoLocals ==
    /\ pdf = << >>
    /\ pdf_rename_pattern = << >>
    /\ note_target_folder = << >>
    /\ note_template_path = << >>
    /\ note_filename_pattern = << >>
    /\ data = << >>
    /\ new_pdf_path = << >>
    /\ note_path = << >>
    /\ note_content = << >>

ResetLocals ==
    /\ pdf' = << >>
    /\ pdf_rename_pattern' = << >>
    /\ note_target_folder' = << >>
    /\ note_template_path' = << >>
    /\ note_filename_pattern' = << >>
    /\ data' = << >>
    /\ new_pdf_path' = << >>
    /\ note_path' = << >>
    /\ note_content' = << >>

NoArgs ==
    [pdf |-> << >>, pdf_rename_pattern |-> None, note_target_folder |-> None,
     note_template_path |-> None, note_filename_pattern |-> None,
     pdf2bib_config |-> << >>, pdf2doi_config |-> << >>]

EmptyResult == Result(<< >>, [has |-> FALSE, list |-> << >>])

Init ==
    /\ \E st \in PdfStems, sf \in PdfSuffixes, tpl \in CustomTemplateTexts,
          pre \in SUBSET PreExisting,
          ds \in {{}, {NoteDir}, {SubDir}, {SubDir, SubSubDir}, {NoteDir, SubDir, SubSubDir}} :
          /\ dirs = {Root, PdfDir, PkgDir, TemplateDir} \cup ds
          /\ files = (JoinPath(PdfDir, st \o << sf >>) :> << "%PDF" >>)
                     @@ (DefaultTemplatePath :> DefaultTemplateText)
                     @@ (CustomTemplatePath :> tpl)
                     @@ [q \in pre |-> OldText]
    /\ paper \in Papers
    /\ config = [pdf2doi |-> << >>, pdf2bib |-> << >>]
    /\ args = NoArgs
    /\ pc = "idle"
    /\ run = 0
    /\ err = "none"
    /\ NoLocals
    /\ extraction_result = EmptyResult
    /\ hist = NoHist

-----------------------------------------------------------------------------
(* paper2note, lines 62-145 *)

Step(label) == [hist EXCEPT !.steps = Append(@, label)]

Raise(e) ==
    /\ pc' = "failed"
    /\ err' = e

Enter(a) ==
    /\ args' = a
    /\ pc' = "l92"
    /\ run' = run + 1
    /\ err' = "none"
    /\ ResetLocals
    /\ hist' = [files0 |-> files, dirs0 |-> dirs, config0 |-> config,
                prevPc |-> pc, prevErr |-> err,
                renamed |-> FALSE, extracted |-> FALSE, steps |-> << >>]
    /\ UNCHANGED << files, dirs, config, paper, extraction_result >>

\* the first call: any arguments
Call ==
    /\ pc = "idle"
    /\ \E f \in (DOMAIN files \cap PdfPaths) \cup {MissingPdf}, rp \in RenamePatterns, nf \in NoteFolders,
          tp \in TemplatePaths, np \in NotePatterns, cf \in Configs :
          Enter([pdf |-> f, pdf_rename_pattern |-> rp, note_target_folder |-> nf,
                    note_template_path |-> tp, note_filename_pattern |-> np,
                   pdf2bib_config |-> cf, pdf2doi_config |-> cf])

\* a further call on the same PDF with the same arguments; the PDF is named by
\* the path the call before was given or by the path that call left it at
CallAgain ==
    /\ pc \in {"done", "failed"}
    /\ run < MaxRuns
    /\ \E f \in {args.pdf} \cup (IF hist.renamed THEN {new_pdf_path} ELSE {}) :
          Enter([args EXCEPT !.pdf = f])

\* a slip in line 93: the suffix compared without regard to case
IsPdfAnyCase(path) == suffix(path) \in {<< ".pdf" >>, << ".PDF" >>}
\* line 93: pdf.suffix == ".pdf"
IsPdf(path) == suffix(path) = << ".pdf" >>

\* lines 92-94
Validate ==
    /\ pc = "l92"
    /\ LET path == input_validate_path(args.pdf)
       IN  /\ pdf' = path
           /\ IF ~exists(files, dirs, path) THEN Raise("FileNotFoundError")
              ELSE IF ~IsPdf(path) THEN Raise("ValueError")
              ELSE pc' = "l96" /\ err' = err
    /\ hist' = Step("validate")
    /\ UNCHANGED << files, dirs, config, paper, args, run, pdf_rename_pattern,
                    note_target_folder, note_template_path, note_filename_pattern,
                    data, new_pdf_path, note_path, note_content, extraction_result >>

\* lines 96-110
Defaults ==
    /\ pc = "l96"
    /\ pdf_rename_pattern' = Or(args.pdf_rename_pattern, S(stem(pdf))).v
    /\ note_target_folder' = input_validate_path(Or(args.note_target_folder, S(parent(pdf))).v)
    /\ note_template_path' = input_validate_path(Or(args.note_template_path, S(DefaultTemplatePath)).v)
    /\ note_filename_pattern' = Or(args.note_filename_pattern, S(pdf_rename_pattern')).v
    /\ IF ~exists(files, dirs, note_template_path') THEN Raise("FileNotFoundError")
       ELSE pc' = "l113" /\ err' = err
    /\ hist' = Step("defaults")
    /\ UNCHANGED << files, dirs, config, paper, args, run, pdf, data, new_pdf_path,
                    note_path, note_content, extraction_result >>

\* lines 113-116: every entry is set in the library's process-wide configuration
Configure ==
    /\ pc = "l113"
    /\ config' = [pdf2doi |-> args.pdf2doi_config @@ config.pdf2doi,
                  pdf2bib |-> args.pdf2bib_config @@ config.pdf2bib]
    /\ pc' = "l122"
    /\ hist' = Step("configure")
    /\ UNCHANGED << files, dirs, paper, args, run, err, pdf, pdf_rename_pattern,
                    note_target_folder, note_template_path, note_filename_pattern,
                    data, new_pdf_path, note_path, note_content, extraction_result >>

\* lines 122-123
Extract ==
    /\ pc = "l122"
    /\ extraction_result' = paper
    /\ data' = clean_metadata(paper)
    /\ pc' = "l126"
    /\ hist' = [Step("extract") EXCEPT !.extracted = TRUE]
    /\ UNCHANGED << files, dirs, config, paper, args, run, err, pdf, pdf_rename_pattern,
                    note_target_folder, note_template_path, note_filename_pattern,
                    new_pdf_path, note_path, note_content >>

\* lines 126-131
RenamePdf ==
    /\ pc = "l126"
    /\ LET formatted == Format(pdf_rename_pattern, data)
           target == JoinPath(parent(pdf), formatted.s \o << ".pdf" >>)
       IN  IF ~formatted.ok
           THEN /\ Raise("KeyError")
                /\ hist' = Step("rename")
                /\ UNCHANGED << files, new_pdf_path >>
           ELSE /\ new_pdf_path' = target
                /\ IF target # pdf /\ ~exists(files, dirs, target)
                   THEN IF parent(target) \in dirs
                        THEN /\ files' = rename(files, pdf, target)
                             /\ hist' = [Step("rename") EXCEPT !.renamed = TRUE]
                             /\ pc' = "l134" /\ err' = err
                        ELSE /\ Raise("FileNotFoundError")
                             /\ hist' = Step("rename")
                             /\ UNCHANGED files
                   ELSE /\ hist' = Step("rename")
                        /\ pc' = "l134" /\ err' = err
                        /\ UNCHANGED files
    /\ UNCHANGED << dirs, config, paper, args, run, pdf, pdf_rename_pattern,
                    note_target_folder, note_template_path, note_filename_pattern,
                    data, note_path, note_content, extraction_result >>

\* a slip in lines 135-142: the note file is opened before the template is formatted
FormatNoteOpensFirst ==
    /\ pc = "l134"
    /\ LET formatted == Format(note_filename_pattern, data)
           path == JoinPath(note_target_folder, formatted.s \o << ".md" >>)
           content == Format(files[note_template_path], data)
       IN  IF ~formatted.ok
           THEN Raise("KeyError") /\ UNCHANGED << note_path, note_content, files >>
           ELSE /\ note_path' = path
                /\ files' = IF ~exists(files, dirs, path) /\ parent(path) \in dirs
                            THEN open_w(files, path) ELSE files
                /\ IF ~content.ok
                   THEN Raise("KeyError") /\ UNCHANGED note_content
                   ELSE note_content' = content.s /\ pc' = "l137" /\ err' = err
    /\ hist' = Step("format_note")
    /\ UNCHANGED << dirs, config, paper, args, run, pdf, pdf_rename_pattern,
                    note_target_folder, note_template_path, note_filename_pattern,
                    data, new_pdf_path, extraction_result >>

\* lines 134-135
FormatNote ==
    /\ pc = "l134"
    /\ LET formatted == Format(note_filename_pattern, data)
           content == IF note_template_path \in DOMAIN files
                      THEN Format(files[note_template_path], data)
                      ELSE [ok |-> FALSE, s |-> << >>, key |-> ""]
       IN  IF ~formatted.ok
           THEN Raise("KeyError") /\ UNCHANGED << note_path, note_content >>
           ELSE /\ note_path' = JoinPath(note_target_folder, formatted.s \o << ".md" >>)
                /\ IF note_template_path \notin DOMAIN files
                   THEN Raise("FileNotFoundError") /\ UNCHANGED note_content
                   ELSE IF ~content.ok
                   THEN Raise("KeyError") /\ UNCHANGED note_content
                   ELSE note_content' = content.s /\ pc' = "l137" /\ err' = err
    /\ hist' = Step("format_note")
    /\ UNCHANGED << files, dirs, config, paper, args, run, pdf, pdf_rename_pattern,
                    note_target_folder, note_template_path, note_filename_pattern,
                    data, new_pdf_path, extraction_result >>

\* a slip in line 137: the "not" dropped
NoteMissingInverted(fs, ds, path) == exists(fs, ds, path)
\* line 137: not note_path.exists()
NoteMissing(fs, ds, path) == ~exists(fs, ds, path)

\* lines 137-142 and 144-145: the note is skipped when something exists at its
\* path; otherwise the folder is made and the file is opened for writing
CreateNote ==
    /\ pc = "l137"
    /\ IF NoteMissing(files, dirs, note_path)
       THEN /\ dirs' = IF ~exists(files, dirs, note_target_folder)
                       THEN mkdir_parents(dirs, note_target_folder) ELSE dirs
            /\ IF parent(note_path) \in dirs'
               THEN /\ files' = open_w(files, note_path)
                    /\ pc' = "l143" /\ err' = err
               ELSE Raise("FileNotFoundError") /\ UNCHANGED files
       ELSE /\ pc' = "done" /\ err' = err
            /\ UNCHANGED << files, dirs >>
    /\ hist' = Step("create_note")
    /\ UNCHANGED << config, paper, args, run, pdf, pdf_rename_pattern,
                    note_target_folder, note_template_path, note_filename_pattern,
                    data, new_pdf_path, note_path, note_content, extraction_result >>

\* line 143 and the close of the file: the content is written, or the write or the
\* close raises OSError (no space left, an I/O error) and the file holds what had
\* reached it so far, some prefix of the content
WriteNote ==
    /\ pc = "l143"
    /\ \/ /\ files' = write(files, note_path, note_content)
          /\ pc' = "done" /\ err' = err
       \/ /\ \E k \in 0..Len(note_content) :
                files' = write(files, note_path, SubSeq(note_content, 1, k))
          /\ Raise("OSError")
    /\ hist' = Step("write_note")
    /\ UNCHANGED << dirs, config, paper, args, run, pdf, pdf_rename_pattern,
                    note_target_folder, note_template_path, note_filename_pattern,
                    data, new_pdf_path, note_path, note_content, extraction_result >>

Next ==
    \/ Call
    \/ CallAgain
    \/ Validate
    \/ Defaults
    \/ Configure
    \/ Extract
    \/ RenamePdf
    \/ FormatNote
    \/ CreateNote
    \/ WriteNote

Spec == Init /\ [][Next]_vars

-----------------------------------------------------------------------------
(* clean_metadata on its own: the extraction results it is applied to *)

SourceKeys == ScalarKeys \cup {"summary", "bibtex"}
Presence == {"absent", "falsy", "present"}
FalsyValues == {None, S(<< >>), I(<< "0" >>)}

AuthorLists == UNION {[1..n -> {Jane, John}] : n \in 0..MaxAuthors}

\* the value a source key holds: its own name as text, or the falsy value;
\* an absent key is not in the mapping
Entries(keys, status, falsy) ==
    [k \in {q \in keys : status[q] # "absent"} |->
        IF status[k] = "falsy" THEN falsy ELSE S(<< k >>)]

\* every key has the base status, but for at most MaxVaried keys with another one
ExtractionResults ==
    {[metadata |-> Entries(ScalarKeys, st, fv),
      author |-> au,
      validation_data |-> Entries({"summary"}, st, fv),
      bibtex |-> IF st["bibtex"] = "absent" THEN None
                 ELSE IF st["bibtex"] = "falsy" THEN fv ELSE S(<< "bibtex" >>)] :
        st \in {[k \in SourceKeys |-> IF k \in varied THEN other ELSE base] :
                    base \in Presence, other \in Presence,
                    varied \in {v \in SUBSET SourceKeys : Cardinality(v) <= MaxVaried}},
        fv \in FalsyValues,
        au \in {[has |-> FALSE, list |-> << >>]} \cup {[has |-> TRUE, list |-> l] : l \in AuthorLists}}

InitClean ==
    /\ extraction_result \in ExtractionResults
    /\ pc = "clean"
    /\ files = << >>
    /\ dirs = {}
    /\ paper = EmptyResult
    /\ config = [pdf2doi |-> << >>, pdf2bib |-> << >>]
    /\ args = NoArgs
    /\ run = 0
    /\ err = "none"
    /\ NoLocals
    /\ hist = NoHist

CleanMetadata ==
    /\ pc = "clean"
    /\ data' = clean_metadata(extraction_result)
    /\ pc' = "cleaned"
    /\ UNCHANGED << files, dirs, config, paper, args, run, err, pdf, pdf_rename_pattern,
                    note_target_folder, note_template_path, note_filename_pattern,
                    new_pdf_path, note_path, note_content, extraction_result, hist >>

NextClean == CleanMetadata

SpecClean == InitClean /\ [][NextClean]_vars

-----------------------------------------------------------------------------
(* Properties of clean_metadata (specification SpecClean) *)

ResultScalars ==
    {"title", "year", "month", "day", "journal", "doi", "url", "volume", "page",
     "type", "abstract", "bibtex"}

Sentinel ==
    [title |-> << "<no title found>" >>, year |-> << "????" >>, month |-> << "??" >>,
     day |-> << "??" >>, journal |-> << "<no journal found>" >>,
     doi |-> << "<no doi found>" >>, url |-> << "<no url found>" >>,
     volume |-> << "<no volume found>" >>, page |-> << "<no page found>" >>,
     type |-> << "article" >>, abstract |-> << "<no abstract found>" >>,
     bibtex |-> << "<no bibtex found>" >>]

\* whether the extraction result holds a truthy value for a field of the result
HasSource(result, field) ==
    LET has(d, k) == k \in DOMAIN d /\ Truthy(d[k])
    IN  CASE field = "journal" -> has(result.metadata, "journal") \/ has(result.metadata, "ejournal")
          [] field = "type" -> has(result.metadata, "ENTRYTYPE")
          [] field = "abstract" -> has(result.validation_data, "summary")
          [] field = "bibtex" -> Truthy(result.bibtex)
          [] OTHER -> has(result.metadata, field)

\* C6: every scalar field of the cleaned metadata whose source value is absent or
\* falsy holds its sentinel string, and no scalar field is ever empty or falsy.
C6_ScalarsFallBackToSentinel ==
    pc = "cleaned" =>
        \A f \in ResultScalars :
            /\ f \in DOMAIN data
            /\ Truthy(data[f])
            /\ ~HasSource(extraction_result, f) => data[f] = S(Sentinel[f])

\* C7: for an author list of N authors the cleaned metadata holds exactly the keys
\* author_1 .. author_N in list order, each "{given} {family}"; author_last exists
\* iff N >= 1 and equals author_N; authors is the ", "-join of the names, or
\* "<no authors found>" when N = 0.
C7_Authors == IF extraction_result.author.has THEN extraction_result.author.list ELSE << >>
C7_Name(i) == C7_Authors[i].given \o << " " >> \o C7_Authors[i].family
RECURSIVE C7_JoinedUpTo(_)
C7_JoinedUpTo(n) ==
    IF n = 1 THEN C7_Name(1) ELSE C7_JoinedUpTo(n - 1) \o << ", " >> \o C7_Name(n)

C7_AuthorFields ==
    pc = "cleaned" =>
        LET N == Len(C7_Authors)
        IN  /\ DOMAIN data \ ResultScalars =
                    {"authors"} \cup {AuthorKey(i) : i \in 1..N}
                    \cup (IF N >= 1 THEN {"author_last"} ELSE {})
            /\ \A i \in 1..N : data[AuthorKey(i)] = S(C7_Name(i))
            /\ N >= 1 => data["author_last"] = data[AuthorKey(N)]
            /\ data["authors"] = IF N >= 1 THEN S(C7_JoinedUpTo(N))
                                 ELSE S(<< "<no authors found>" >>)

\* C7 witness: two different authors were cleaned
C7_TwoDistinctAuthors ==
    /\ pc = "cleaned"
    /\ Len(C7_Authors) = 2
    /\ C7_Authors[1] # C7_Authors[2]
    /\ data["author_last"] = S(<< "John", " ", "Roe" >>)
    /\ data["authors"] = S(<< "Jane", " ", "Doe", ", ", "John", " ", "Roe" >>)

-----------------------------------------------------------------------------
(* Properties of paper2note (specification Spec) *)

Ended == pc \in {"done", "failed"}
LastStep == IF hist.steps = << >> THEN "none" ELSE hist.steps[Len(hist.steps)]
Did(label) == \E i \in 1..Len(hist.steps) : hist.steps[i] = label

\* a text with a replacement field whose key the metadata lacks
MissesKey(text, d) == \E i \in 1..Len(text) : IsField(text[i]) /\ FieldKey[text[i]] \notin DOMAIN d

\* the files of the call's start other than the PDF are where and what they were
OtherFilesKept ==
    \A q \in DOMAIN hist.files0 \ {pdf} : q \in DOMAIN files /\ files[q] = hist.files0[q]

\* since the call's start nothing changed in the filesystem but the rename of the
\* PDF, when it was done
OnlyTheRename ==
    /\ dirs = hist.dirs0
    /\ IF hist.renamed
       THEN /\ new_pdf_path \in DOMAIN files
            /\ files[new_pdf_path] = hist.files0[pdf]
            /\ pdf \notin DOMAIN files
            /\ OtherFilesKept
            /\ DOMAIN files = (DOMAIN hist.files0 \ {pdf}) \cup {new_pdf_path}
       ELSE files = hist.files0

\* C1: a second run on the same PDF with the same arguments and metadata, after a
\* first run that completed, renames nothing and writes nothing: the filesystem
\* after it equals the filesystem after the first run.
C1_SecondRunChangesNothing ==
    (run >= 2 /\ hist.prevPc = "done" /\ Ended) =>
        /\ files = hist.files0
        /\ dirs = hist.dirs0

\* C2: in the rename step, if the target equals the PDF's path or something exists
\* at the target, nothing moves and every file keeps path and content; otherwise
\* the PDF is moved to the target and is no longer at its original path; no
\* existing file is ever overwritten.
C2_RenameSkipsOrMoves ==
    (LastStep = "rename" /\ new_pdf_path # << >>) =>
        /\ OtherFilesKept
        /\ IF new_pdf_path = pdf \/ exists(hist.files0, hist.dirs0, new_pdf_path)
           THEN files = hist.files0
           ELSE /\ new_pdf_path \in DOMAIN files
                /\ files[new_pdf_path] = hist.files0[pdf]
                /\ pdf \notin DOMAIN files

\* the note step found something at the note's path
C3_NoteExisted ==
    /\ Did("format_note")
    /\ note_path # << >>
    /\ exists(hist.files0, hist.dirs0, note_path)

\* C3 as stated: whenever a file exists at notePath the note step is a non-fatal
\* skip, whatever the template text: the run does not fail and the note keeps its
\* content.
C3_ExistingNoteNeverFails ==
    C3_NoteExisted =>
        /\ pc # "failed"
        /\ note_path \in DOMAIN files => files[note_path] = hist.files0[note_path]

\* C3 amended: whenever a file exists at notePath its content is left unchanged
\* for every template text; the step is a non-fatal skip exactly when the
\* template formats, and with a template that references an absent key the run
\* fails with KeyError although the note exists.
C3_ExistingNoteKeptAndSkippedIfTemplateFormats ==
    C3_NoteExisted =>
        /\ OnlyTheRename
        /\ IF MissesKey(files[note_template_path], data)
           THEN pc = "failed" /\ err = "KeyError"
           ELSE pc \in {"l137", "done"} /\ err = "none"

\* C3 witness: a run ended normally having left an older note as it was
C3_SkippedExistingNote ==
    /\ C3_NoteExisted
    /\ pc = "done"
    /\ LastStep = "create_note"
    /\ note_path \in DOMAIN files
    /\ files[note_path] = OldText
    /\ note_content # OldText

\* the template of the call references a key absent from the cleaned metadata
C4_TemplateMissesKey ==
    /\ hist.extracted
    /\ note_template_path \in DOMAIN hist.files0
    /\ MissesKey(hist.files0[note_template_path], data)

\* C4: when the template references a key absent from the cleaned metadata the
\* run fails with KeyError and no note file is created, empty, partial or
\* truncated: the only change to the filesystem is the rename of the PDF.
C4_MissingFieldCreatesNoNote ==
    C4_TemplateMissesKey =>
        /\ pc \notin {"l137", "l143", "done"}
        /\ Did("format_note") => pc = "failed" /\ err = "KeyError"
        /\ OnlyTheRename

\* C4 witness: the note's filename formatted, the template did not, and nothing
\* is at the note's path
C4_FailedOnTemplateOnly ==
    /\ C4_TemplateMissesKey
    /\ LastStep = "format_note"
    /\ err = "KeyError"
    /\ ~MissesKey(note_filename_pattern, data)
    /\ ~exists(files, dirs, note_path)

\* C5: called without pdf_rename_pattern, the pattern is the PDF's stem and the
\* PDF is not renamed: it is still at its original path.
C5_NoPatternNoRename ==
    (args.pdf_rename_pattern = None /\ Did("defaults")) =>
        /\ pdf_rename_pattern = stem(pdf)
        /\ ~hist.renamed
        /\ pdf \in DOMAIN files

\* the file given is there and its suffix is not exactly ".pdf"
C8_NotAPdf ==
    /\ run >= 1
    /\ pc \notin {"idle", "l92"}
    /\ exists(hist.files0, hist.dirs0, input_validate_path(args.pdf))
    /\ suffix(input_validate_path(args.pdf)) # << ".pdf" >>

\* C8: for an existing file whose suffix is not exactly ".pdf" the run fails with
\* ValueError at the first step: no configuration is set, nothing is extracted,
\* and the filesystem is unchanged.
C8_NonPdfRejectedFirst ==
    C8_NotAPdf =>
        /\ pc = "failed"
        /\ err = "ValueError"
        /\ hist.steps = << "validate" >>
        /\ ~hist.extracted
        /\ config = hist.config0
        /\ files = hist.files0
        /\ dirs = hist.dirs0

\* C8 witness: a call on an existing ".PDF" file with a configuration to set
C8_UppercaseRejected ==
    /\ C8_NotAPdf
    /\ suffix(input_validate_path(args.pdf)) = << ".PDF" >>
    /\ args.pdf2bib_config # << >>
    /\ err = "ValueError"

\* the rename was done and the call then failed
C9_RenamedThenFailed == hist.renamed /\ pc = "failed"

C9_RenameBeforeNote ==
    \A i \in 1..Len(hist.steps) :
        hist.steps[i] \in {"format_note", "create_note", "write_note"} =>
            \E j \in 1..(i - 1) : hist.steps[j] = "rename"

C9_PdfStaysRenamed ==
    /\ new_pdf_path \in DOMAIN files
    /\ files[new_pdf_path] = hist.files0[pdf]
    /\ pdf \notin DOMAIN files
    /\ OtherFilesKept

\* C9 as stated: the rename comes before the note step and is not rolled back: if
\* the rename was done and the note step then fails, by a pattern or template that
\* references an absent key or by a failing write, the PDF is at its renamed path,
\* nothing is at its original path and no note file was created.
C9_NoRollbackNoNote ==
    /\ C9_RenameBeforeNote
    /\ C9_RenamedThenFailed =>
        /\ C9_PdfStaysRenamed
        /\ DOMAIN files = (DOMAIN hist.files0 \ {pdf}) \cup {new_pdf_path}

\* C9 amended: as stated when the note step fails before line 142 opens the note
\* file (formatting the filename or the template, or opening the file); when the
\* write of line 143 fails, the PDF is renamed as well, but the note file exists
\* and holds a prefix of the content (it may be empty or partial).
C9_NoRollbackNoteOnlyIfOpened ==
    /\ C9_RenameBeforeNote
    /\ C9_RenamedThenFailed =>
        /\ C9_PdfStaysRenamed
        /\ IF LastStep = "write_note"
           THEN /\ DOMAIN files = (DOMAIN hist.files0 \ {pdf}) \cup {new_pdf_path, note_path}
                /\ note_path \notin DOMAIN hist.files0
                /\ Len(files[note_path]) <= Len(note_content)
                /\ files[note_path] = SubSeq(note_content, 1, Len(files[note_path]))
           ELSE DOMAIN files = (DOMAIN hist.files0 \ {pdf}) \cup {new_pdf_path}

\* C9 witness: the PDF was moved and the note step then raised KeyError
C9_RenamedThenKeyError ==
    /\ C9_RenamedThenFailed
    /\ LastStep = "format_note"
    /\ err = "KeyError"
    /\ new_pdf_path # pdf

\* C10: after a run that renames the PDF the renamed PDF lies in the directory of
\* the original PDF, for every pattern and every metadata value.
C10_RenamedInSameDirectory ==
    hist.renamed => parent(new_pdf_path) = parent(pdf)

====
